---- MODULE Spec2Model ----
(***************************************************************************)
(* Model of app/src/main/cpp/main.cpp: the Engine class (EGL render        *)
(* target, accelerometer subscription, input routing, saved state) and the *)
(* event loop of android_main.                                             *)
(*                                                                         *)
(* One step of the model is one pass through the inner loop of             *)
(* android_main: one ALooper_pollAll call, the dispatch of what it         *)
(* returned (source->process, processSensorEvents), the destroyRequested   *)
(* check, and, when the poll returned a negative ident, Engine::animate.   *)
(*                                                                         *)
(* The EGL backend, the sensor queue and the native_app_glue are outside   *)
(* the repository.  Their results are inputs of the steps (an "env"        *)
(* record), and the backend's bookkeeping follows the EGL 1.4              *)
(* specification: eglTerminate releases the display connection and every   *)
(* surface and context of the display; eglMakeCurrent with a surface but   *)
(* no context is EGL_BAD_MATCH; eglMakeCurrent with neither releases the   *)
(* current context and succeeds.                                           *)
(*                                                                         *)
(* angle is a float advanced by .01f; it is counted here in multiples of   *)
(* that increment, 1.0 being AngleOne increments.  width and height, which *)
(* only enter the colour of the frame, are left out.                       *)
(***************************************************************************)
EXTENDS Integers, Sequences, FiniteSets, TLC

\* ---------------------------------------------------------------- bounds
MaxRes == 1        \* surface handles and context handles the backend can hold
MaxConfigs == 2    \* configurations eglChooseConfig can return
MaxCoord == 1      \* pointer coordinates are 0..MaxCoord
AngleOne == 1      \* 1.0 in multiples of the per-frame increment

\* ------------------------------------------------------------- constants
EGL_NO_DISPLAY == 0
EGL_NO_SURFACE == 0
EGL_NO_CONTEXT == 0
DefaultDisplay == 1            \* eglGetDisplay(EGL_DEFAULT_DISPLAY)
NullConfig == 0                \* EGLConfig nullptr
GarbageConfig == -1            \* a non-null value read past the config array
NoSavedState == << >>          \* android_app::savedState == nullptr;
                               \* a buffer holding record r is <<r>>
TimeoutForever == -1
TimeoutZero == 0
AngleIncrement == 1

Angles == 0..AngleOne
Coords == 0..MaxCoord
ResIds == 1..MaxRes

SavedStates ==
  {r \in [angle : Angles, x : Coords, y : Coords] :
     r.x + r.y \in {0, MaxCoord}}
ZeroState == [angle |-> 0, x |-> 0, y |-> 0]

VARIABLES
  ctx,              \* Engine::Context (without the constant handles)
  egl,              \* backend: display initialised, live surfaces, contexts
  sensorEnabled,    \* delivery state of the accelerometer in the queue
  savedState,       \* android_app::savedState
  destroyRequested, \* android_app::destroyRequested
  pc,               \* "loop", "done" (android_main returned), "aborted"
  timeout,          \* timeout argument of the latest ALooper_pollAll call
  event,            \* what the latest poll returned and was dispatched
  calls,            \* backend calls issued by the latest step, in order
  initRet,          \* return value of initDisplay in the latest step
  inputRet,         \* return value of onInputEvent in the latest step
  pointer,          \* <<x, y>> of pointer 0 of the event routed in that step
  focused,          \* the latest focus command was GainFocus
  okSinceTerm,      \* an initDisplay succeeded and no termDisplay ran since
  failSinceOk,      \* an initDisplay failed after the latest success
  doubleFree        \* a destroy call named a handle that was not live

vars == <<ctx, egl, sensorEnabled, savedState, destroyRequested, pc,
          timeout, event, calls, initRet, inputRet, pointer, focused,
          okSinceTerm, failSinceOk, doubleFree>>

NoRet == "none"
NoPointer == << >>

\* ------------------------------------------------------------ the engine
\* A "world" is what the member functions of Engine read and write.
World == [ctx |-> ctx, egl |-> egl, sensorEnabled |-> sensorEnabled,
          savedState |-> savedState, calls |-> << >>, doubleFree |-> doubleFree]

Call(w, name) == [w EXCEPT !.calls = Append(@, name)]

\* InitCtx with a restore that leaves angle at the memset value.
InitCtx_angleNotRestored(saved, sensor) ==
  [animating |-> FALSE,
   display |-> EGL_NO_DISPLAY, surface |-> EGL_NO_SURFACE,
   context |-> EGL_NO_CONTEXT,
   state |-> IF saved # NoSavedState
             THEN [saved[1] EXCEPT !.angle = 0] ELSE ZeroState,
   accelerometerSensor |-> sensor]

\* Engine::init: memset, sensor lookup, restore of the saved state.
InitCtx(saved, sensor) ==
  [animating |-> FALSE,
   display |-> EGL_NO_DISPLAY, surface |-> EGL_NO_SURFACE,
   context |-> EGL_NO_CONTEXT,
   state |-> IF saved # NoSavedState THEN saved[1] ELSE ZeroState,
   accelerometerSensor |-> sensor]

isAnimating(w) == w.ctx.animating

\* PollTimeout with the two timeouts exchanged.
PollTimeout_exchanged(animating) ==
  IF animating THEN TimeoutForever ELSE TimeoutZero

\* The timeout argument android_main passes to ALooper_pollAll.
PollTimeout(animating) == IF animating THEN TimeoutZero ELSE TimeoutForever

\* --------------------------------------------------- Engine::initDisplay
\* What the platform answers during one initDisplay call: the matching
\* configurations (TRUE: r = g = b = 8 and d = 0), the value an out-of-bounds
\* read of the configuration array yields, whether the build strips assert()
\* (NDEBUG), and the results of the creation calls and of eglMakeCurrent.
AllInitEnvs == [configs : UNION {[1..n -> BOOLEAN] : n \in 0..MaxConfigs},
                oob : {NullConfig, GarbageConfig},
                ndebug : BOOLEAN,
                surfOk : BOOLEAN, ctxOk : BOOLEAN, mcOk : BOOLEAN]

\* The answers that make a difference: a field initDisplay does not get to
\* read has one value only, and since every configuration of the array is
\* as good as another for the calls that follow, the failures of those calls
\* are combined with one array only.
InitEnvs ==
  {env \in AllInitEnvs :
     /\ Len(env.configs) > 0 => env.oob = NullConfig /\ env.ndebug
     /\ Len(env.configs) > 0 /\ ~(env.surfOk /\ env.ctxOk /\ env.mcOk) =>
          env.configs = <<TRUE>>
     /\ Len(env.configs) = 0 /\ ~env.ndebug =>
          env.oob = NullConfig /\ ~env.surfOk /\ ~env.ctxOk /\ ~env.mcOk
     /\ Len(env.configs) = 0 /\ env.ndebug /\ env.oob = NullConfig =>
          ~env.surfOk /\ ~env.ctxOk /\ ~env.mcOk
     /\ Len(env.configs) = 0 /\ env.ndebug /\ env.oob = GarbageConfig =>
          ~env.surfOk /\ ~env.ctxOk}

\* A handle the backend has not handed out, EGL_BAD_ALLOC (0) when none.
NewHandle(live) ==
  IF ResIds \ live = {} THEN 0
  ELSE CHOOSE h \in ResIds \ live : \A g \in ResIds \ live : h <= g

\* The loop of lines 110-122: the index (from 0) of the first configuration
\* with r = g = b = 8 and d = 0, numConfigs when there is none.
RECURSIVE FirstExact(_, _)
FirstExact(configs, i) ==
  IF i >= Len(configs) THEN Len(configs)
  ELSE IF configs[i + 1] THEN i
  ELSE FirstExact(configs, i + 1)

\* Lines 110-125: the chosen EGLConfig.  Configuration k of the array is the
\* handle k + 1; supportedConfigs[0] of an empty array is read out of bounds.
ChooseConfig(env) ==
  LET numConfigs == Len(env.configs)
      i == FirstExact(env.configs, 0)
  IN IF i < numConfigs THEN i + 1
     ELSE IF numConfigs > 0 THEN 1
     ELSE env.oob

\* eglMakeCurrent(display, surface, surface, context) on an initialised
\* display.
MakeCurrent(surface, context, env) ==
  IF surface # EGL_NO_SURFACE /\ context = EGL_NO_CONTEXT THEN FALSE
  ELSE env.mcOk

\* initDisplay with a failure path that also drops the stored handles.
initDisplay_failureClearsTarget(w, env) ==
  LET w1 == [Call(w, "eglInitialize") EXCEPT !.egl.initialized = TRUE]
      numConfigs == Len(env.configs)
      config == ChooseConfig(env)
      surface == IF env.surfOk /\ config > 0
                 THEN NewHandle(w1.egl.surfaces) ELSE EGL_NO_SURFACE
      context == IF env.ctxOk /\ config > 0
                 THEN NewHandle(w1.egl.contexts) ELSE EGL_NO_CONTEXT
      w2 == [Call(Call(w1, "eglCreateWindowSurface"), "eglCreateContext")
               EXCEPT !.egl.surfaces = @ \cup ({surface} \ {EGL_NO_SURFACE}),
                      !.egl.contexts = @ \cup ({context} \ {EGL_NO_CONTEXT})]
      w3 == Call(w2, "eglMakeCurrent")
      Cleared(v) == [v EXCEPT !.ctx.display = EGL_NO_DISPLAY,
                              !.ctx.context = EGL_NO_CONTEXT,
                              !.ctx.surface = EGL_NO_SURFACE]
  IN IF numConfigs = 0 /\ ~env.ndebug THEN [w |-> w1, ret |-> "abort"]
     ELSE IF config = NullConfig THEN [w |-> Cleared(w1), ret |-> "-1"]
     ELSE IF ~MakeCurrent(surface, context, env)
     THEN [w |-> Cleared(w3), ret |-> "-1"]
     ELSE [w |-> [w3 EXCEPT !.ctx.display = DefaultDisplay,
                            !.ctx.context = context,
                            !.ctx.surface = surface,
                            !.ctx.state.angle = 0],
           ret |-> "0"]

initDisplay(w, env) ==
  LET w1 == [Call(w, "eglInitialize") EXCEPT !.egl.initialized = TRUE]
      numConfigs == Len(env.configs)
      config == ChooseConfig(env)
      surface == IF env.surfOk /\ config > 0
                 THEN NewHandle(w1.egl.surfaces) ELSE EGL_NO_SURFACE
      context == IF env.ctxOk /\ config > 0
                 THEN NewHandle(w1.egl.contexts) ELSE EGL_NO_CONTEXT
      w2 == [Call(Call(w1, "eglCreateWindowSurface"), "eglCreateContext")
               EXCEPT !.egl.surfaces = @ \cup ({surface} \ {EGL_NO_SURFACE}),
                      !.egl.contexts = @ \cup ({context} \ {EGL_NO_CONTEXT})]
      w3 == Call(w2, "eglMakeCurrent")
  IN IF numConfigs = 0 /\ ~env.ndebug THEN [w |-> w1, ret |-> "abort"]
     ELSE IF config = NullConfig THEN [w |-> w1, ret |-> "-1"]
     ELSE IF ~MakeCurrent(surface, context, env) THEN [w |-> w3, ret |-> "-1"]
     ELSE [w |-> [w3 EXCEPT !.ctx.display = DefaultDisplay,
                            !.ctx.context = context,
                            !.ctx.surface = surface,
                            !.ctx.state.angle = 0],
           ret |-> "0"]

\* The answers when initDisplay is not called.
NoEnv == CHOOSE env \in InitEnvs : TRUE

\* --------------------------------------------------- Engine::termDisplay
eglDestroyContext(w, context) ==
  [Call(w, "eglDestroyContext")
     EXCEPT !.egl.contexts = @ \ {context},
            !.doubleFree = @ \/ context \notin w.egl.contexts]

eglDestroySurface(w, surface) ==
  [Call(w, "eglDestroySurface")
     EXCEPT !.egl.surfaces = @ \ {surface},
            !.doubleFree = @ \/ surface \notin w.egl.surfaces]

eglTerminate(w) ==
  [Call(w, "eglTerminate")
     EXCEPT !.egl = [initialized |-> FALSE, surfaces |-> {}, contexts |-> {}],
            !.doubleFree = @ \/ ~w.egl.initialized]

\* termDisplay without the guard on the stored display.
termDisplay_unguarded(w) ==
  LET w1 == Call(w, "eglMakeCurrent")
      w2 == IF w.ctx.context # EGL_NO_CONTEXT
            THEN eglDestroyContext(w1, w.ctx.context) ELSE w1
      w3 == IF w.ctx.surface # EGL_NO_SURFACE
            THEN eglDestroySurface(w2, w.ctx.surface) ELSE w2
      w4 == eglTerminate(w3)
  IN [w4 EXCEPT !.ctx.animating = FALSE,
                !.ctx.display = EGL_NO_DISPLAY,
                !.ctx.context = EGL_NO_CONTEXT,
                !.ctx.surface = EGL_NO_SURFACE]

termDisplay(w) ==
  LET w1 == Call(w, "eglMakeCurrent")
      w2 == IF w.ctx.context # EGL_NO_CONTEXT
            THEN eglDestroyContext(w1, w.ctx.context) ELSE w1
      w3 == IF w.ctx.surface # EGL_NO_SURFACE
            THEN eglDestroySurface(w2, w.ctx.surface) ELSE w2
      w4 == IF w.ctx.display # EGL_NO_DISPLAY THEN eglTerminate(w3) ELSE w
  IN [w4 EXCEPT !.ctx.animating = FALSE,
                !.ctx.display = EGL_NO_DISPLAY,
                !.ctx.context = EGL_NO_CONTEXT,
                !.ctx.surface = EGL_NO_SURFACE]

\* ----------------------------------------------------- Engine::drawFrame
drawFrame(w) ==
  IF w.ctx.display = EGL_NO_DISPLAY THEN w
  ELSE Call(Call(w, "glClear"), "eglSwapBuffers")

\* -------------------------------------------------- Engine::onInputEvent
\* An input event: its type and the coordinates of pointer 0.  The pointer
\* is taken along the line x + y = MaxCoord, where x and y can be told apart.
InputEvents ==
  {ev \in [type : {"motion", "key"}, x : Coords, y : Coords] :
     ev.x + ev.y = MaxCoord}

\* onInputEvent with the two coordinates exchanged.
onInputEvent_xyExchanged(w, ev) ==
  IF ev.type = "motion"
  THEN [w |-> [w EXCEPT !.ctx.animating = TRUE,
                        !.ctx.state.x = ev.y,
                        !.ctx.state.y = ev.x],
        ret |-> "1"]
  ELSE [w |-> w, ret |-> "0"]

onInputEvent(w, ev) ==
  IF ev.type = "motion"
  THEN [w |-> [w EXCEPT !.ctx.animating = TRUE,
                        !.ctx.state.x = ev.x,
                        !.ctx.state.y = ev.y],
        ret |-> "1"]
  ELSE [w |-> w, ret |-> "0"]

\* --------------------------------------------------- Engine::onSaveState
\* onSaveState that hands the state over: the engine's copy is cleared.
onSaveState_movesState(w) ==
  [w EXCEPT !.savedState = <<w.ctx.state>>, !.ctx.state = ZeroState]

onSaveState(w) == [w EXCEPT !.savedState = <<w.ctx.state>>]

\* ------------------------------------- Engine::onInitWindow, onTermWindow
\* window: android_app::window is not null.
onInitWindow(w, window, env) ==
  IF window
  THEN LET r == initDisplay(w, env)
       IN IF r.ret = "abort" THEN r
          ELSE [w |-> drawFrame(r.w), ret |-> r.ret]
  ELSE [w |-> w, ret |-> NoRet]

onTermWindow(w) == termDisplay(w)

\* ------------------------------------------------------- Engine::onFocus
\* onFocus without the final frame when the focus is lost.
onFocus_noFinalFrame(w, gained) ==
  IF gained
  THEN IF w.ctx.accelerometerSensor
       THEN [Call(Call(w, "enableSensor"), "setEventRate")
               EXCEPT !.sensorEnabled = TRUE]
       ELSE w
  ELSE LET w1 == IF w.ctx.accelerometerSensor
                 THEN [Call(w, "disableSensor") EXCEPT !.sensorEnabled = FALSE]
                 ELSE w
       IN [w1 EXCEPT !.ctx.animating = FALSE]

\* onFocus that leaves the sensor enabled when the focus is lost.
onFocus_neverDisables(w, gained) ==
  IF gained
  THEN IF w.ctx.accelerometerSensor
       THEN [Call(Call(w, "enableSensor"), "setEventRate")
               EXCEPT !.sensorEnabled = TRUE]
       ELSE w
  ELSE drawFrame([w EXCEPT !.ctx.animating = FALSE])

\* onFocus that leaves animating alone when the focus is lost.
onFocus_keepsAnimating(w, gained) ==
  IF gained
  THEN IF w.ctx.accelerometerSensor
       THEN [Call(Call(w, "enableSensor"), "setEventRate")
               EXCEPT !.sensorEnabled = TRUE]
       ELSE w
  ELSE LET w1 == IF w.ctx.accelerometerSensor
                 THEN [Call(w, "disableSensor") EXCEPT !.sensorEnabled = FALSE]
                 ELSE w
       IN drawFrame(w1)

\* onFocus that enables the sensor without looking whether there is one.
onFocus_sensorUnchecked(w, gained) ==
  IF gained
  THEN [Call(Call(w, "enableSensor"), "setEventRate")
          EXCEPT !.sensorEnabled = TRUE]
  ELSE LET w1 == IF w.ctx.accelerometerSensor
                 THEN [Call(w, "disableSensor") EXCEPT !.sensorEnabled = FALSE]
                 ELSE w
       IN drawFrame([w1 EXCEPT !.ctx.animating = FALSE])

onFocus(w, gained) ==
  IF gained
  THEN IF w.ctx.accelerometerSensor
       THEN [Call(Call(w, "enableSensor"), "setEventRate")
               EXCEPT !.sensorEnabled = TRUE]
       ELSE w
  ELSE LET w1 == IF w.ctx.accelerometerSensor
                 THEN [Call(w, "disableSensor") EXCEPT !.sensorEnabled = FALSE]
                 ELSE w
       IN drawFrame([w1 EXCEPT !.ctx.animating = FALSE])

\* ------------------------------------------- Engine::processSensorEvents
processSensorEvents(w) ==
  IF w.ctx.accelerometerSensor THEN Call(w, "getEvents") ELSE w

\* ------------------------------------------------------- Engine::animate
NextAngle(angle) ==
  IF angle + AngleIncrement > AngleOne THEN 0 ELSE angle + AngleIncrement

\* animate that advances the angle whether animating or not.
animate_unconditional(w) ==
  drawFrame([w EXCEPT !.ctx.state.angle = NextAngle(@)])

animate(w) ==
  IF w.ctx.animating
  THEN drawFrame([w EXCEPT !.ctx.state.angle = NextAngle(@)])
  ELSE w

\* ---------------------------------------------------------- android_main
\* The state when android_main reaches its loop in a fresh process:
\* engine.init(state) has run and nothing is allocated in the backend.
Started(saved, sensor) ==
  [ctx |-> InitCtx(saved, sensor),
   egl |-> [initialized |-> FALSE, surfaces |-> {}, contexts |-> {}],
   savedState |-> saved]

EngineInit(saved, sensor) ==
  LET s0 == Started(saved, sensor)
  IN /\ ctx = s0.ctx
     /\ egl = s0.egl
     /\ savedState = s0.savedState
     /\ sensorEnabled = FALSE
     /\ destroyRequested = 0
     /\ pc = "loop"
     /\ timeout = TimeoutForever
     /\ event = "init"
     /\ calls = << >>
     /\ initRet = NoRet
     /\ inputRet = NoRet
     /\ pointer = NoPointer
     /\ focused = FALSE
     /\ okSinceTerm = FALSE
     /\ failSinceOk = FALSE
     /\ doubleFree = FALSE

\* The host starts the activity with any saved state, or none.
Init ==
  \E saved \in {NoSavedState} \cup {<<r>> : r \in SavedStates},
     sensor \in BOOLEAN :
    EngineInit(saved, sensor)

\* The first start of the activity: the host has no saved state.
InitFirst == \E sensor \in BOOLEAN : EngineInit(NoSavedState, sensor)

\* ALooper_pollAll(engine.isAnimating() ? 0 : -1, ...) is called.
Poll ==
  /\ pc = "loop"
  /\ timeout' = PollTimeout(isAnimating(World))

\* AfterDispatch that returns on a destroy request without the release.
AfterDispatch_noRelease(w, dr, aborted) ==
  /\ ctx' = w.ctx
  /\ egl' = w.egl
  /\ sensorEnabled' = w.sensorEnabled
  /\ savedState' = w.savedState
  /\ calls' = w.calls
  /\ doubleFree' = w.doubleFree
  /\ destroyRequested' = dr
  /\ pc' = IF aborted THEN "aborted" ELSE IF dr # 0 THEN "done" ELSE "loop"

\* The rest of one pass of the inner loop after the dispatch: the
\* destroyRequested check of lines 391-394.  w is the world the handlers
\* left, dr the value of android_app::destroyRequested, aborted whether an
\* assert stopped the process.
AfterDispatch(w, dr, aborted) ==
  LET w1 == IF dr # 0 /\ ~aborted THEN termDisplay(w) ELSE w
  IN /\ ctx' = w1.ctx
     /\ egl' = w1.egl
     /\ sensorEnabled' = w1.sensorEnabled
     /\ savedState' = w1.savedState
     /\ calls' = w1.calls
     /\ doubleFree' = w1.doubleFree
     /\ destroyRequested' = dr
     /\ pc' = IF aborted THEN "aborted" ELSE IF dr # 0 THEN "done" ELSE "loop"

\* Bookkeeping of what the step was: the event, the handlers' return values
\* and the history the claims speak about.
RecordInput(ev, ir, nr, ptr, foc, ok, fail) ==
  /\ event' = ev
  /\ initRet' = ir
  /\ inputRet' = nr
  /\ pointer' = ptr
  /\ focused' = foc
  /\ okSinceTerm' = ok
  /\ failSinceOk' = fail

\* The same for a step that routes no input event.
Record(ev, ir, nr, foc, ok, fail) ==
  RecordInput(ev, ir, nr, NoPointer, foc, ok, fail)

\* case APP_CMD_SAVE_STATE
CmdSaveState ==
  /\ Poll
  /\ AfterDispatch(onSaveState(World), 0, FALSE)
  /\ Record("SaveState", NoRet, NoRet, focused,
            okSinceTerm, failSinceOk)

\* case APP_CMD_INIT_WINDOW
CmdInitWindow ==
  /\ Poll
  /\ \E window \in BOOLEAN :
     \E env \in IF window THEN InitEnvs ELSE {NoEnv} :
       LET r == onInitWindow(World, window, env)
       IN /\ AfterDispatch(r.w, 0, r.ret = "abort")
          /\ Record("InitWindow", r.ret, NoRet, focused,
                    IF r.ret = "0" THEN TRUE ELSE okSinceTerm,
                    IF r.ret = "0" THEN FALSE
                    ELSE IF r.ret = "-1" THEN TRUE ELSE failSinceOk)

\* case APP_CMD_TERM_WINDOW
CmdTermWindow ==
  /\ Poll
  /\ AfterDispatch(onTermWindow(World), 0, FALSE)
  /\ Record("TermWindow", NoRet, NoRet, focused, FALSE, FALSE)

\* case APP_CMD_GAINED_FOCUS
CmdGainFocus ==
  /\ Poll
  /\ AfterDispatch(onFocus(World, TRUE), 0, FALSE)
  /\ Record("GainFocus", NoRet, NoRet, TRUE,
            okSinceTerm, failSinceOk)

\* case APP_CMD_LOST_FOCUS
CmdLoseFocus ==
  /\ Poll
  /\ AfterDispatch(onFocus(World, FALSE), 0, FALSE)
  /\ Record("LoseFocus", NoRet, NoRet, FALSE,
            okSinceTerm, failSinceOk)

\* default: of onAppCmd for APP_CMD_DESTROY; the glue has set
\* destroyRequested before the callback, the loop sees it after the dispatch.
CmdDestroy ==
  /\ Poll
  /\ AfterDispatch(World, 1, FALSE)
  /\ Record("Destroy", NoRet, NoRet, focused, FALSE, FALSE)

\* default: of onAppCmd for every other command
CmdOther ==
  /\ Poll
  /\ AfterDispatch(World, 0, FALSE)
  /\ Record("Other", NoRet, NoRet, focused,
            okSinceTerm, failSinceOk)

\* state->onInputEvent: one input event is routed
Input ==
  /\ Poll
  /\ \E ev \in InputEvents :
       LET r == onInputEvent(World, ev)
       IN /\ AfterDispatch(r.w, 0, FALSE)
          /\ RecordInput(ev.type, NoRet, r.ret, <<ev.x, ev.y>>, focused,
                         okSinceTerm, failSinceOk)

\* ident == LOOPER_ID_USER: the sensor queue has data
Sensor ==
  /\ Poll
  /\ sensorEnabled
  /\ AfterDispatch(processSensorEvents(World), 0, FALSE)
  /\ Record("sensor", NoRet, NoRet, focused,
            okSinceTerm, failSinceOk)

\* The poll returns a negative ident: the inner loop ends and animate() runs.
\* ALOOPER_POLL_TIMEOUT needs a zero timeout; a wake-up or an error of the
\* looper ends a blocking poll as well.
Animate ==
  /\ Poll
  /\ AfterDispatch(animate(World), 0, FALSE)
  /\ Record("none", NoRet, NoRet, focused, okSinceTerm, failSinceOk)

Next ==
  \/ CmdSaveState
  \/ CmdInitWindow
  \/ CmdTermWindow
  \/ CmdGainFocus
  \/ CmdLoseFocus
  \/ CmdDestroy
  \/ CmdOther
  \/ Input
  \/ Sensor
  \/ Animate

\* The host starts the activity again after android_main has ended and hands
\* it the buffer the previous run saved.
Restart ==
  /\ pc \in {"done", "aborted"}
  /\ LET s0 == Started(savedState, ctx.accelerometerSensor)
     IN /\ ctx' = s0.ctx
        /\ egl' = s0.egl
        /\ savedState' = s0.savedState
  /\ sensorEnabled' = FALSE
  /\ destroyRequested' = 0
  /\ pc' = "loop"
  /\ timeout' = TimeoutForever
  /\ calls' = << >>
  /\ doubleFree' = FALSE
  /\ Record("init", NoRet, NoRet, FALSE, FALSE, FALSE)

\* One run of android_main.
Spec == Init /\ [][Next]_vars

NextR == Next \/ Restart

\* Runs of android_main one after the other, from a first start.
SpecR == InitFirst /\ [][NextR]_vars

\* The poll returns on its zero timeout while animating (line 378 with
\* line 371): the pass that finds no event and runs animate.
Timeout == ctx.animating /\ Animate

\* The loop under its scheduling: a poll with timeout 0 returns at once, so
\* that a loop that stays animating gets its timeout pass again and again.
SpecLive == Init /\ [][Next]_vars /\ WF_vars(Timeout)

\* ------------------------------------------------------------ vocabulary
\* The validity test of drawFrame and termDisplay.
TargetValid == ctx.display # EGL_NO_DISPLAY

AllValid ==
  /\ ctx.display # EGL_NO_DISPLAY
  /\ ctx.surface # EGL_NO_SURFACE
  /\ ctx.context # EGL_NO_CONTEXT

AllInvalid ==
  /\ ctx.display = EGL_NO_DISPLAY
  /\ ctx.surface = EGL_NO_SURFACE
  /\ ctx.context = EGL_NO_CONTEXT

\* The frames the latest step presented: buffer swaps that had a surface and
\* a context to act on.  drawFrame is the last thing a step does to the
\* target, so the handles of the state are the handles of the swap.
FramesPresented ==
  IF ctx.surface # EGL_NO_SURFACE /\ ctx.context # EGL_NO_CONTEXT
  THEN Cardinality({i \in 1..Len(calls) : calls[i] = "eglSwapBuffers"})
  ELSE 0

\* How many times a call occurs among the calls of the latest step.
Count(name) == Cardinality({i \in 1..Len(calls) : calls[i] = name})

TypeOK ==
  /\ ctx.state \in SavedStates
  /\ ctx.animating \in BOOLEAN
  /\ ctx.display \in {EGL_NO_DISPLAY, DefaultDisplay}
  /\ ctx.surface \in {EGL_NO_SURFACE} \cup ResIds
  /\ ctx.context \in {EGL_NO_CONTEXT} \cup ResIds
  /\ egl.surfaces \subseteq ResIds
  /\ egl.contexts \subseteq ResIds
  /\ pc \in {"loop", "done", "aborted"}
  /\ timeout \in {TimeoutForever, TimeoutZero}

\* ================================================================ claims

C2_AllOrNothing ==
  AllValid \/ AllInvalid

\* C3: when the loop has terminated, nothing an acquisition created is still
\* allocated in the backend (display connection, surfaces, contexts) and
\* nothing was destroyed twice.
C3_NoLeakNoDoubleFree ==
  pc = "done" =>
    /\ ~egl.initialized
    /\ egl.surfaces = {}
    /\ egl.contexts = {}
    /\ ~doubleFree

\* C4: animating is false right after engine init, only the routing of a
\* motion event takes it from false to true (so it is false until the first
\* motion event), and it is false right after a LoseFocus or a Destroy has
\* been handled.
C4_Animating ==
  /\ [](event = "init" => ~ctx.animating)
  /\ [][(~ctx.animating /\ ctx'.animating) => event' = "motion"]_vars
  /\ [](event \in {"LoseFocus", "Destroy"} => ~ctx.animating)

\* A LoseFocus was handled while animating was true (the poll that delivered
\* it had a zero timeout), and animating is false.
C4_Witness ==
  event = "LoseFocus" /\ timeout = TimeoutZero /\ ~ctx.animating

\* C5: every poll is issued with the timeout that the value of animating at
\* the moment of the call gives: indefinite (-1) when false, zero when true.
C5_PollTimeout ==
  [][timeout' = IF ctx.animating THEN 0 ELSE -1]_vars

\* A poll with a zero timeout delivered the LoseFocus that cleared animating:
\* the next poll of the same drain pass derives its timeout anew.
C5_Witness ==
  /\ event = "LoseFocus" /\ timeout = 0 /\ ~ctx.animating /\ pc = "loop"

\* C6, as stated: angle advances by the increment, wrapping back to 0, in
\* every loop iteration that ends with animating true, and nothing else
\* changes it.
C6_AngleOnlyAnimate ==
  [][ctx'.state.angle =
       IF event' = "none" /\ ctx.animating
       THEN (IF ctx.state.angle + AngleIncrement > AngleOne
             THEN 0 ELSE ctx.state.angle + AngleIncrement)
       ELSE ctx.state.angle]_vars

\* C6, amended: angle advances by the increment, wrapping back to 0, in every
\* loop iteration that ends with animating true; besides that, the only thing
\* that changes it is an InitWindow whose acquisition succeeds, which sets it
\* to 0 whether animating is true or false.
C6_AngleAnimateOrAcquire ==
  [][ctx'.state.angle =
       IF event' = "none" /\ ctx.animating
       THEN (IF ctx.state.angle + AngleIncrement > AngleOne
             THEN 0 ELSE ctx.state.angle + AngleIncrement)
       ELSE IF event' = "InitWindow" /\ initRet' = "0"
       THEN 0
       ELSE ctx.state.angle]_vars

\* A loop iteration has ended with animating true and advanced the angle.
C6_Witness ==
  event = "none" /\ ctx.animating /\ ctx.state.angle = AngleOne

\* C7: right after SaveState the buffer equals the PersistableState field for
\* field, and right after engine init the PersistableState equals the buffer
\* the host handed over, or is all zero when there is none.
C7_SaveRestore ==
  /\ event = "SaveState" =>
       /\ savedState # NoSavedState
       /\ savedState[1].angle = ctx.state.angle
       /\ savedState[1].x = ctx.state.x
       /\ savedState[1].y = ctx.state.y
  /\ event = "init" =>
       ctx.state = IF savedState = NoSavedState THEN ZeroState
                   ELSE savedState[1]

\* An engine has started from a buffer a previous run saved, with an angle
\* and a position that are not the initial ones.
C7_Witness ==
  /\ event = "init"
  /\ savedState # NoSavedState
  /\ ctx.state.angle # 0
  /\ ctx.state.x # ctx.state.y

\* C8: a Destroy handled in WindowReady, Focused, animating = true releases
\* the render target exactly once, disables the sensor subscription, ends the
\* loop and presents no frame from then on.
C8_DestroyEndToEnd ==
  /\ [][(AllValid /\ focused /\ ctx.animating /\ event' = "Destroy") =>
          /\ Count("eglTerminate")' = 1
          /\ ~sensorEnabled'
          /\ pc' = "done"
          /\ Count("eglSwapBuffers")' = 0]_vars
  /\ [][pc = "done" => Count("eglSwapBuffers")' = 0]_vars

\* C9: release on an all-invalid target issues no backend call, raises no
\* error and leaves the target all invalid; a second release after a release
\* changes nothing and issues no call.
C9_ReleaseIdempotent ==
  /\ [][(AllInvalid /\ event' \in {"TermWindow", "Destroy"}) =>
          /\ calls' = << >>
          /\ AllInvalid'
          /\ egl' = egl
          /\ doubleFree' = doubleFree
          /\ pc' # "aborted"]_vars
  /\ [](LET once == termDisplay(World)
            twice == termDisplay(once)
        IN twice = once)

\* A TermWindow was handled on a target that was already invalid.
C9_Witness ==
  event = "TermWindow" /\ calls = << >> /\ AllInvalid

\* C10: with no motion sensor, GainFocus issues no call to the sensor queue
\* and leaves subscription, render target, animating and PersistableState as
\* they were.
C10_GainFocusNoSensor ==
  [][(~ctx.accelerometerSensor /\ event' = "GainFocus") =>
       /\ calls' = << >>
       /\ sensorEnabled' = sensorEnabled
       /\ ctx' = ctx
       /\ egl' = egl]_vars

\* A GainFocus was handled by an engine without a sensor.
C10_Witness ==
  event = "GainFocus" /\ ~ctx.accelerometerSensor /\ focused

\* C11: a failed acquisition never aborts or ends the process: the engine
\* stays in the loop, a later InitWindow can still succeed, and the loop ends
\* only on a destroy request of the host.
C11_FailureIsRecoverable ==
  /\ [][(event' = "InitWindow" /\ initRet' \notin {"0", NoRet}) =>
          pc' = "loop"]_vars
  /\ []((event = "InitWindow" /\ initRet \notin {"0", NoRet}) =>
          ENABLED (CmdInitWindow /\ initRet' = "0"))
  /\ [](pc # "aborted")
  /\ [](pc = "done" => event = "Destroy")

\* C12: a command without a valid preceding state is a no-op on the render
\* target: InitWindow in WindowReady acquires nothing and leaves the stored
\* handles as they are, TermWindow in NoWindow issues no backend call and
\* leaves the target all invalid.
C12_OutOfOrderIsNoOp ==
  /\ [][(AllValid /\ event' = "InitWindow") =>
          /\ Count("eglInitialize")' = 0
          /\ Count("eglCreateWindowSurface")' = 0
          /\ Count("eglCreateContext")' = 0
          /\ ctx'.display = ctx.display
          /\ ctx'.surface = ctx.surface
          /\ ctx'.context = ctx.context]_vars
  /\ [][(AllInvalid /\ event' = "TermWindow") =>
          calls' = << >> /\ AllInvalid']_vars

\* C13: SaveState can be dispatched in every state of the loop and changes
\* nothing but the saved buffer: render target, sensor delivery, animating
\* and PersistableState stay as they are and no frame is presented.
C13_SaveStateFrame ==
  /\ [](pc = "loop" => ENABLED CmdSaveState)
  /\ [][event' = "SaveState" =>
          /\ ctx' = ctx
          /\ egl' = egl
          /\ sensorEnabled' = sensorEnabled
          /\ calls' = << >>
          /\ pc' = "loop"]_vars

\* A SaveState was handled in WindowReady, Focused, animating, with a
\* PersistableState that is not the initial one.
C13_Witness ==
  /\ event = "SaveState"
  /\ AllValid /\ focused /\ ctx.animating
  /\ ctx.state.x # ctx.state.y
  /\ savedState = <<ctx.state>>

\* C14: a motion event is reported consumed, sets lastX/lastY to the
\* coordinates of pointer 0 and sets animating, in every lifecycle state;
\* every other input event is reported not consumed and leaves lastX, lastY,
\* angle, animating and the render target as they were.
C14_InputRouting ==
  /\ [](pc = "loop" =>
          ENABLED (Input /\ event' = "motion") /\ ENABLED (Input /\ event' = "key"))
  /\ [][event' = "motion" =>
          /\ inputRet' = "1"
          /\ ctx'.state.x = pointer'[1]
          /\ ctx'.state.y = pointer'[2]
          /\ ctx'.animating
          /\ ctx'.state.angle = ctx.state.angle]_vars
  /\ [][event' = "key" =>
          /\ inputRet' = "0"
          /\ ctx' = ctx
          /\ egl' = egl]_vars

\* A motion event was routed in NoWindow, Unfocused, with x and y different.
C14_Witness ==
  /\ event = "motion" /\ inputRet = "1"
  /\ AllInvalid /\ ~focused
  /\ ctx.animating
  /\ pointer[1] # pointer[2]
  /\ <<ctx.state.x, ctx.state.y>> = pointer

\* C15: an InitWindow whose acquisition succeeds sets angle to 0, leaves
\* lastX and lastY alone and presents exactly one frame within the dispatch;
\* one whose acquisition fails leaves the PersistableState alone and stores
\* nothing of the attempt, so that no frame goes to a target it acquired.
C15_InitWindowFrame ==
  /\ [][(event' = "InitWindow" /\ initRet' = "0") =>
          /\ ctx'.state = [ctx.state EXCEPT !.angle = 0]
          /\ FramesPresented' = 1]_vars
  /\ [][(event' = "InitWindow" /\ initRet' \in {"-1", "abort"}) =>
          /\ ctx' = ctx
          /\ FramesPresented' <= (IF AllValid THEN 1 ELSE 0)]_vars

\* C16: LoseFocus, in any state, disables the sensor when there is one, then
\* clears animating, then presents one frame if the render target is valid
\* and none if it is not, without a change to angle, lastX, lastY or the
\* stored handles; the next poll is issued with the indefinite timeout.
C16_LoseFocus ==
  /\ [](pc = "loop" => ENABLED CmdLoseFocus)
  /\ [][event' = "LoseFocus" =>
          /\ ~sensorEnabled'
          /\ Count("disableSensor")' = (IF ctx.accelerometerSensor THEN 1 ELSE 0)
          /\ (Count("disableSensor")' = 1 => calls'[1] = "disableSensor")
          /\ ctx' = [ctx EXCEPT !.animating = FALSE]
          /\ FramesPresented' = (IF AllValid THEN 1 ELSE 0)
          /\ (AllInvalid => Count("eglSwapBuffers")' = 0)]_vars
  /\ [][event = "LoseFocus" => timeout' = TimeoutForever]_vars

\* A LoseFocus was handled while animating on a valid target, with a sensor:
\* the sensor was disabled and one frame presented.
C16_Witness ==
  /\ event = "LoseFocus" /\ timeout = TimeoutZero
  /\ calls = <<"disableSensor", "glClear", "eglSwapBuffers">>
  /\ AllValid /\ ~ctx.animating /\ ~sensorEnabled

\* C17: a destroy request ends the loop from every state of the loop: in the
\* step that observes it the release runs and android_main returns, with the
\* target all invalid and animating false, and nothing happens afterwards (no
\* poll, no dispatch, no angle advance, no frame).
C17_Shutdown ==
  /\ [](pc = "loop" => ENABLED CmdDestroy)
  /\ [][event' = "Destroy" =>
          /\ pc' = "done"
          /\ AllInvalid'
          /\ ~ctx'.animating
          /\ Count("eglTerminate")' = (IF TargetValid THEN 1 ELSE 0)
          /\ Count("eglSwapBuffers")' = 0
          /\ ctx'.state = ctx.state]_vars
  /\ [](pc = "done" => event = "Destroy" /\ AllInvalid /\ ~ctx.animating)
  /\ [][pc # "done"]_vars

\* The loop has ended on a destroy request that found a valid target and
\* animating true.
C17_Witness ==
  /\ pc = "done" /\ event = "Destroy" /\ timeout = TimeoutZero
  /\ Count("eglTerminate") = 1
  /\ AllInvalid /\ ~ctx.animating

\* C19: no frame goes to an invalid render target: a clear or a buffer swap
\* is issued only when the stored display, surface and context are valid.
C19_NoFrameOnInvalidTarget ==
  (Count("glClear") > 0 \/ Count("eglSwapBuffers") > 0) => AllValid

\* C20: the sensor is enabled exactly when there is a sensor and the latest
\* focus command was GainFocus; only the focus commands change the delivery
\* state, and without a sensor it is never enabled.
C20_SensorTracksFocus ==
  /\ [](sensorEnabled <=> (ctx.accelerometerSensor /\ focused))
  /\ [][event' \notin {"GainFocus", "LoseFocus"} =>
          sensorEnabled' = sensorEnabled]_vars
  /\ [](~ctx.accelerometerSensor => ~sensorEnabled)

\* After a GainFocus and then a LoseFocus the sensor is off again while a
\* frame was presented on a valid target.
C20_Witness ==
  /\ event = "LoseFocus" /\ ~focused /\ ~sensorEnabled
  /\ ctx.accelerometerSensor
  /\ Count("disableSensor") = 1
  /\ okSinceTerm

\* C18: if animating is true, the render target is valid and only finitely
\* many further events arrive, then a new frame with an advanced angle is
\* produced, again and again, until a LoseFocus, TermWindow or Destroy is
\* handled; every pass made while animating on a valid target that finds no
\* event advances the angle and presents one frame; and the poll is issued
\* with the indefinite timeout only when animating is false.
C18_ProgressWhileAnimating ==
  /\ (<>[][event' = "none"]_vars) =>
       \A a \in Angles :
         (pc = "loop" /\ ctx.animating /\ AllValid /\ ctx.state.angle = a)
           ~> \/ /\ event = "none" /\ FramesPresented = 1
                 /\ ctx.state.angle # a
              \/ event \in {"LoseFocus", "TermWindow", "Destroy"}
  /\ [][(ctx.animating /\ AllValid /\ event' = "none") =>
          /\ ctx'.state.angle = NextAngle(ctx.state.angle)
          /\ FramesPresented' = 1]_vars
  /\ [][timeout' = TimeoutForever => ~ctx.animating]_vars

====
